---- MODULE Spec2Model ----
(***************************************************************************)
(* The CSS selector builder of src/src/06-objects-tasks.js: the Selector   *)
(* objects made by Selector() and the cssSelectorBuilder facade that keeps *)
(* the pending compounds (selectors) and combinators (splitters).          *)
(*                                                                         *)
(* Program state: sels (the heap of Selector objects), selectors and       *)
(* splitters (the facade's two lists) and ret (what the last call returned *)
(* or threw).  History state, written by no code but needed to state the   *)
(* properties: hist, nreset, owner, held, solo, soloRet; left is the       *)
(* number of calls the callers may still make.                             *)
(***************************************************************************)
EXTENDS Integers, Sequences, FiniteSets, TLC

VARIABLES sels, selectors, splitters, ret,
          hist, nreset, owner, held, solo, soloRet, left

vars == <<sels, selectors, splitters, ret,
          hist, nreset, owner, held, solo, soloRet, left>>

(***************************** bounds **************************************)
\* calls made on the one compound of SpecSel, its construction included
MaxCalls == 4
\* calls the caller of Spec makes
MaxTreeCalls == 6
\* calls the two callers of SpecTwo make together
MaxTwoCalls == 6

Callers == {1, 2}

(************************* JavaScript values *******************************)
UNDEF == "<undefined>"

Num(n) == [t |-> "number", n |-> n]
NaN == [t |-> "NaN", n |-> 0]
Undefined == [t |-> "undefined", n |-> 0]

\* x + 1 of JavaScript: undefined + 1 and NaN + 1 are NaN
JSAdd1(x) == IF x.t = "number" THEN Num(x.n + 1) ELSE NaN

\* x > 1 of JavaScript: every comparison with NaN is false
JSGt1(x) == x.t = "number" /\ x.n > 1

\* x || '' on a string argument that may be missing
OrEmpty(x) == IF x = UNDEF \/ x = "" THEN "" ELSE x

\* truthiness of this.splitters[i]: undefined and '' are falsy
Truthy(x) == x # UNDEF /\ x # ""

(***************************** Selector ************************************)
orderRule == <<"element", "id", "class", "attr", "pseudoClass", "pseudoElement">>

Kinds == {orderRule[n] : n \in DOMAIN orderRule}

\* Array.prototype.indexOf: the 0-based position, -1 when absent (null is absent)
IndexOf(arr, x) ==
  IF \E n \in DOMAIN arr : arr[n] = x
  THEN (CHOOSE n \in DOMAIN arr : arr[n] = x /\ \A m \in 1..(n - 1) : arr[m] # x) - 1
  ELSE -1

\* the object literal returned by Selector()
NewSelector ==
  [str |-> "",
   last |-> "null",
   unicCall |-> [k \in Kinds |->
                   IF k \in {"id", "pseudoElement", "element"} THEN Num(0) ELSE Undefined]]

checkCall(s, fName) ==
  LET n == [s EXCEPT !.unicCall[fName] = JSAdd1(@)]
  IN  [sel |-> n, threw |-> JSGt1(n.unicCall[fName])]

\* mutant: < for <=, so that a repeated kind is out of order
checkOrderStrict(s, fName) ==
  LET isOrdered == IndexOf(orderRule, s.last) < IndexOf(orderRule, fName)
  IN  [sel |-> [s EXCEPT !.last = fName], threw |-> ~isOrdered]

\* mutant: this.last is assigned before it is compared
checkOrderAssignFirst(s, fName) ==
  LET n == [s EXCEPT !.last = fName]
      isOrdered == IndexOf(orderRule, n.last) <= IndexOf(orderRule, fName)
  IN  [sel |-> n, threw |-> ~isOrdered]

checkOrder(s, fName) ==
  LET isOrdered == IndexOf(orderRule, s.last) <= IndexOf(orderRule, fName)
  IN  [sel |-> [s EXCEPT !.last = fName], threw |-> ~isOrdered]

\* mutant: the fragment is put in front of str
callMethPrepend(s, v, fName, addBefore, addAfter) ==
  LET c == checkCall(s, fName)
      o == checkOrder(c.sel, fName)
  IN  IF c.threw THEN [sel |-> c.sel, err |-> "duplicate"]
      ELSE IF o.threw THEN [sel |-> o.sel, err |-> "order"]
      ELSE [sel |-> [o.sel EXCEPT !.str = OrEmpty(addBefore) \o v \o OrEmpty(addAfter) \o @],
            err |-> "none"]

\* mutant: checkOrder is called before checkCall
callMethOrderFirst(s, v, fName, addBefore, addAfter) ==
  LET o == checkOrder(s, fName)
      c == checkCall(o.sel, fName)
  IN  IF o.threw THEN [sel |-> o.sel, err |-> "order"]
      ELSE IF c.threw THEN [sel |-> c.sel, err |-> "duplicate"]
      ELSE [sel |-> [c.sel EXCEPT !.str = @ \o OrEmpty(addBefore) \o v \o OrEmpty(addAfter)],
            err |-> "none"]

\* callMeth: the Selector after the call and the error thrown ("none": returns this)
callMeth(s, v, fName, addBefore, addAfter) ==
  LET c == checkCall(s, fName)
      o == checkOrder(c.sel, fName)
  IN  IF c.threw THEN [sel |-> c.sel, err |-> "duplicate"]
      ELSE IF o.threw THEN [sel |-> o.sel, err |-> "order"]
      ELSE [sel |-> [o.sel EXCEPT !.str = @ \o OrEmpty(addBefore) \o v \o OrEmpty(addAfter)],
            err |-> "none"]

\* the six fragment methods element, id, class, attr, pseudoClass, pseudoElement
Method(s, f, v) ==
  CASE f = "element"       -> callMeth(s, v, "element", UNDEF, UNDEF)
    [] f = "id"            -> callMeth(s, v, "id", "#", UNDEF)
    [] f = "class"         -> callMeth(s, v, "class", ".", UNDEF)
    [] f = "attr"          -> callMeth(s, v, "attr", "[", "]")
    [] f = "pseudoClass"   -> callMeth(s, v, "pseudoClass", ":", UNDEF)
    [] f = "pseudoElement" -> callMeth(s, v, "pseudoElement", "::", UNDEF)

\* mutant: the reset also forgets which singleton kinds were used
ResetSelCounters(s) == [NewSelector EXCEPT !.unicCall = [k \in Kinds |->
                          IF s.unicCall[k].t = "number" THEN Num(0) ELSE s.unicCall[k]]]

\* Selector.stringify on the str and last of one object
ResetSel(s) == [s EXCEPT !.str = "", !.last = "null"]

(************************* cssSelectorBuilder ******************************)
\* A world is the facade's two lists and the Selector objects they refer to.
EmptyWorld == [sels |-> <<>>, selectors |-> <<>>, splitters |-> <<>>]

World == [sels |-> sels, selectors |-> selectors, splitters |-> splitters]

\* setNewSelector(v, f): a throw of n[f](v) would leave the facade untouched;
\* obj is the object returned (n, a new object), 0 when the call throws
setNewSelector(w, v, f) ==
  LET n == Method(NewSelector, f, v)
  IN  IF n.err # "none"
      THEN [w |-> w, err |-> n.err, val |-> "", obj |-> 0]
      ELSE [w |-> [w EXCEPT !.sels = Append(@, n.sel),
                            !.selectors = Append(@, Len(w.sels) + 1)],
            err |-> "none", val |-> "", obj |-> Len(w.sels) + 1]

\* a chained fragment method on the Selector object i; obj is the object
\* returned (callMeth returns this), 0 when the call throws
chain(w, i, v, f) ==
  LET r == Method(w.sels[i], f, v)
  IN  [w |-> [w EXCEPT !.sels[i] = r.sel], err |-> r.err, val |-> "",
       obj |-> IF r.err = "none" THEN i ELSE 0]

\* Selector.stringify on object i: this.prototype is the facade
selStringify(w, i) ==
  [w |-> [w EXCEPT !.sels[i] = ResetSel(@), !.selectors = <<>>],
   err |-> "none", val |-> w.sels[i].str]

\* mutant: push for unshift
combineAppend(w, b) ==
  [w |-> [w EXCEPT !.splitters = Append(@, b)], err |-> "none", val |-> ""]

\* combine(a, b): the third argument has no parameter and a is never read
combine(w, b) ==
  [w |-> [w EXCEPT !.splitters = <<b>> \o @], err |-> "none", val |-> ""]

\* mutant: the combinator is added without the spaces around it
PieceNoSpaces(w, i) ==
  LET r == w.sels[w.selectors[i]].str
      sp == IF i <= Len(w.splitters) THEN w.splitters[i] ELSE UNDEF
  IN  IF Truthy(sp) THEN r \o sp ELSE r

\* the callback of selectors.map for position i (1-based here)
Piece(w, i) ==
  LET r == w.sels[w.selectors[i]].str
      sp == IF i <= Len(w.splitters) THEN w.splitters[i] ELSE UNDEF
  IN  IF Truthy(sp) THEN r \o " " \o sp \o " " ELSE r

RECURSIVE Reduce(_, _)
\* reduce((a, b) => a + b) over the pieces n..Len(selectors)
Reduce(w, n) ==
  IF n > Len(w.selectors) THEN "" ELSE Piece(w, n) \o Reduce(w, n + 1)

\* cssSelectorBuilder.stringify: reduce of an empty array without an initial
\* value throws a TypeError before the two lists are cleared
stringify(w) ==
  IF w.selectors = <<>>
  THEN [w |-> w, err |-> "TypeError", val |-> ""]
  ELSE [w |-> [sels |-> [i \in DOMAIN w.sels |->
                           IF \E n \in DOMAIN w.selectors : w.selectors[n] = i
                           THEN ResetSel(w.sels[i]) ELSE w.sels[i]],
               selectors |-> <<>>,
               splitters |-> <<>>],
        err |-> "none",
        val |-> Reduce(w, 1)]

(************************** history state **********************************)
\* hist[i]: every fragment call made on object i, with its outcome and the
\* number of resets of i (nreset[i]) at the time of the call.
\* owner[i]: the caller that constructed object i.
\* held[c]: the expressions caller c has built and not yet passed to combine,
\* oldest first: [t |-> "sel", i |-> object] or [t |-> "comb", l, op, r].
\* solo[c]: the world caller c would have if its calls ran alone on a fresh
\* facade; soloRet: what the last call returned there.

Ops == {" ", ">", "+", "~"}

Leaf(i) == [t |-> "sel", i |-> i]
Node(l, op, r) == [t |-> "comb", l |-> l, op |-> op, r |-> r]
NoExpr == [t |-> "none"]

\* the position caller owner[i] has for object i in its own world
SoloIdx(i) == Cardinality({j \in 1..i : owner[j] = owner[i]})

\* the fragments rendered in the str of object i: its accepted calls since its last reset
Frags(i) == SelectSeq(hist[i], LAMBDA h : h.err = "none" /\ h.epoch = nreset[i])

NoRet == [op |-> "none", caller |-> 0, sel |-> 0, kind |-> "", text |-> "",
          err |-> "none", val |-> "", out |-> 0, expr |-> NoExpr, pre |-> EmptyWorld]

(****************************** actions ************************************)
\* caller c evaluates builder.<f>(v)
Construct(c, f, v) ==
  /\ left > 0
  /\ LET r == setNewSelector(World, v, f)
         sr == setNewSelector(solo[c], v, f)
         i == Len(sels) + 1
     IN  /\ sels' = r.w.sels
         /\ selectors' = r.w.selectors
         /\ splitters' = r.w.splitters
         /\ ret' = [NoRet EXCEPT !.op = "construct", !.caller = c, !.sel = i,
                                 !.kind = f, !.text = v, !.err = r.err, !.out = r.obj]
         /\ solo' = [solo EXCEPT ![c] = sr.w]
         /\ soloRet' = [err |-> sr.err, val |-> sr.val]
         /\ IF r.err = "none"
            THEN /\ hist' = Append(hist, <<[kind |-> f, text |-> v, err |-> "none", epoch |-> 0]>>)
                 /\ nreset' = Append(nreset, 0)
                 /\ owner' = Append(owner, c)
                 /\ held' = [held EXCEPT ![c] = Append(@, Leaf(i))]
            ELSE UNCHANGED <<hist, nreset, owner, held>>
  /\ left' = left - 1

\* caller c evaluates x.<f>(v) on the Selector object i it constructed
Chain(c, i, f, v) ==
  /\ left > 0
  /\ owner[i] = c
  /\ LET r == chain(World, i, v, f)
         sr == chain(solo[c], SoloIdx(i), v, f)
     IN  /\ sels' = r.w.sels
         /\ selectors' = r.w.selectors
         /\ splitters' = r.w.splitters
         /\ ret' = [NoRet EXCEPT !.op = "chain", !.caller = c, !.sel = i,
                                 !.kind = f, !.text = v, !.err = r.err, !.out = r.obj]
         /\ solo' = [solo EXCEPT ![c] = sr.w]
         /\ soloRet' = [err |-> sr.err, val |-> sr.val]
         /\ hist' = [hist EXCEPT ![i] =
                       Append(@, [kind |-> f, text |-> v, err |-> r.err, epoch |-> nreset[i]])]
  /\ left' = left - 1
  /\ UNCHANGED <<nreset, owner, held>>

\* caller c evaluates x.stringify() on the Selector object i it constructed
SelStringify(c, i) ==
  /\ left > 0
  /\ owner[i] = c
  /\ LET r == selStringify(World, i)
         sr == selStringify(solo[c], SoloIdx(i))
     IN  /\ sels' = r.w.sels
         /\ selectors' = r.w.selectors
         /\ splitters' = r.w.splitters
         /\ ret' = [NoRet EXCEPT !.op = "selStringify", !.caller = c, !.sel = i,
                                 !.err = r.err, !.val = r.val, !.expr = Leaf(i)]
         /\ solo' = [solo EXCEPT ![c] = sr.w]
         /\ soloRet' = [err |-> sr.err, val |-> sr.val]
  /\ nreset' = [nreset EXCEPT ![i] = @ + 1]
  /\ left' = left - 1
  /\ UNCHANGED <<hist, owner, held>>

\* caller c evaluates builder.combine(l, op, r), l and r being the two
\* expressions it built last
Combine(c, op) ==
  /\ left > 0
  /\ Len(held[c]) >= 2
  /\ LET r == combine(World, op)
         sr == combine(solo[c], op)
         n == Len(held[c])
     IN  /\ sels' = r.w.sels
         /\ selectors' = r.w.selectors
         /\ splitters' = r.w.splitters
         /\ ret' = [NoRet EXCEPT !.op = "combine", !.caller = c, !.text = op, !.err = r.err,
                                 !.expr = Node(held[c][n - 1], op, held[c][n])]
         /\ solo' = [solo EXCEPT ![c] = sr.w]
         /\ soloRet' = [err |-> sr.err, val |-> sr.val]
         /\ held' = [held EXCEPT ![c] =
                       Append(SubSeq(@, 1, n - 2), Node(held[c][n - 1], op, held[c][n]))]
  /\ left' = left - 1
  /\ UNCHANGED <<hist, nreset, owner>>

\* caller c evaluates e.stringify() on the facade: e is the result of its
\* combine call held at position j, or the builder itself (j = 0)
FacadeStringify(c, j) ==
  /\ left > 0
  /\ j = 0 \/ (j \in DOMAIN held[c] /\ held[c][j].t = "comb")
  /\ LET r == stringify(World)
         sr == stringify(solo[c])
     IN  /\ sels' = r.w.sels
         /\ selectors' = r.w.selectors
         /\ splitters' = r.w.splitters
         /\ ret' = [NoRet EXCEPT !.op = "stringify", !.caller = c, !.err = r.err,
                                 !.val = r.val, !.pre = World,
                                 !.expr = IF j = 0 THEN NoExpr ELSE held[c][j]]
         /\ solo' = [solo EXCEPT ![c] = sr.w]
         /\ soloRet' = [err |-> sr.err, val |-> sr.val]
         /\ nreset' = [i \in DOMAIN nreset |->
                         IF r.err = "none" /\ \E n \in DOMAIN selectors : selectors[n] = i
                         THEN nreset[i] + 1 ELSE nreset[i]]
  /\ left' = left - 1
  /\ UNCHANGED <<hist, owner, held>>

InitState ==
  /\ sels = <<>>
  /\ selectors = <<>>
  /\ splitters = <<>>
  /\ ret = NoRet
  /\ hist = <<>>
  /\ nreset = <<>>
  /\ owner = <<>>
  /\ held = [c \in Callers |-> <<>>]
  /\ solo = [c \in Callers |-> EmptyWorld]
  /\ soloRet = [err |-> "none", val |-> ""]

(************************** specifications *********************************)
\* SpecSel: one caller and one compound, every kind and two texts
Texts == {"a", "b"}

InitSel == InitState /\ left = MaxCalls

NextSel ==
  \/ \E f \in Kinds, v \in Texts : sels = <<>> /\ Construct(1, f, v)
  \/ \E i \in DOMAIN sels, f \in Kinds, v \in Texts : Chain(1, i, f, v)
  \/ \E i \in DOMAIN sels : SelStringify(1, i)
  \/ FacadeStringify(1, 0)

SpecSel == InitSel /\ [][NextSel]_vars

\* Spec: one caller building and combining compounds
TreeKinds == {"element", "id"}
TreeTexts == {"a"}
TreeOps == Ops \ {">", "~"}

Init == InitState /\ left = MaxTreeCalls

Next ==
  \/ \E f \in TreeKinds, v \in TreeTexts : Construct(1, f, v)
  \/ \E i \in DOMAIN sels, f \in TreeKinds, v \in TreeTexts : Chain(1, i, f, v)
  \/ \E i \in DOMAIN sels : SelStringify(1, i)
  \/ \E op \in TreeOps : Combine(1, op)
  \/ \E j \in 0..Len(held[1]) : FacadeStringify(1, j)

Spec == Init /\ [][Next]_vars

\* SpecTwo: two callers sharing the facade
TwoKinds == {"id"}
TwoOps == Ops \ {" ", ">", "~"}

InitTwo == InitState /\ left = MaxTwoCalls

NextTwo ==
  \/ \E c \in Callers, f \in TwoKinds, v \in TreeTexts : Construct(c, f, v)
  \/ \E c \in Callers, i \in DOMAIN sels, f \in TwoKinds, v \in TreeTexts : Chain(c, i, f, v)
  \/ \E c \in Callers, i \in DOMAIN sels : SelStringify(c, i)
  \/ \E c \in Callers, op \in TwoOps : Combine(c, op)
  \/ \E c \in Callers : \E j \in 1..Len(held[c]) : FacadeStringify(c, j)

SpecTwo == InitTwo /\ [][NextTwo]_vars

(********************** vocabulary of the properties ***********************)
Singles == {"element", "id", "pseudoElement"}

\* canonical index of a kind: element < id < class < attr < pseudoClass < pseudoElement
KindIndex(k) ==
  CASE k = "element" -> 0 [] k = "id" -> 1 [] k = "class" -> 2
    [] k = "attr" -> 3 [] k = "pseudoClass" -> 4 [] k = "pseudoElement" -> 5
    [] OTHER -> -1

Prefix(k) ==
  CASE k = "element" -> "" [] k = "id" -> "#" [] k = "class" -> "."
    [] k = "attr" -> "[" [] k = "pseudoClass" -> ":" [] k = "pseudoElement" -> "::"

Suffix(k) == IF k = "attr" THEN "]" ELSE ""

RECURSIVE Render(_)
\* prefix + text + suffix of each fragment, in order, with no separators
Render(fs) ==
  IF fs = <<>> THEN ""
  ELSE Prefix(Head(fs).kind) \o Head(fs).text \o Suffix(Head(fs).kind) \o Render(Tail(fs))

\* a sequence of fragment calls that respects the canonical order and the
\* cardinality rules
ValidSeq(fs) ==
  /\ \A m, n \in DOMAIN fs : m < n => KindIndex(fs[m].kind) <= KindIndex(fs[n].kind)
  /\ \A m, n \in DOMAIN fs : (m # n /\ fs[m].kind \in Singles) => fs[m].kind # fs[n].kind

\* the calls made on object i before its latest one
Earlier(i) == SubSeq(hist[i], 1, Len(hist[i]) - 1)

\* the fragments object i held when its latest call was made
FragsBefore(i) == SelectSeq(Earlier(i), LAMBDA h : h.err = "none" /\ h.epoch = nreset[i])

\* the value of object i's last field when its latest call was made: the kind
\* of the latest call since the last reset that reached checkOrder
LastBefore(i) ==
  LET seen == SelectSeq(Earlier(i), LAMBDA h : h.err # "duplicate" /\ h.epoch = nreset[i])
  IN  IF seen = <<>> THEN "null" ELSE seen[Len(seen)].kind

\* whether kind k had been passed to a fragment method of object i before its
\* latest call (its counter was nonzero)
CountedBefore(i, k) == \E n \in DOMAIN Earlier(i) : Earlier(i)[n].kind = k

\* the last call was a chained fragment call
Chained == ret.op = "chain"

(* C1: when every fragment call made on a compound (the constructor's and   *)
(* the chained ones) respects the canonical order and the cardinality rules, *)
(* stringify() of the compound returns the concatenation, in call order, of  *)
(* prefix + text + suffix of each fragment, with no separators.              *)
C1_StringifyConcatenates ==
  (/\ ret.op = "selStringify"
   /\ nreset[ret.sel] = 1
   /\ ValidSeq(hist[ret.sel]))
  => (ret.err = "none" /\ ret.val = Render(hist[ret.sel]))

C1_Witness ==
  /\ ret.op = "selStringify"
  /\ nreset[ret.sel] = 1
  /\ ValidSeq(hist[ret.sel])
  /\ Len(hist[ret.sel]) = 3
  /\ ret.val = "#a.b.a"

(* C2: a chained id, element or pseudoElement call on a compound that holds *)
(* a fragment of that kind fails with the duplicate-fragment error, whatever *)
(* else the compound holds and wherever the kind falls in the order.         *)
C2_SecondSingletonFails ==
  (/\ Chained
   /\ ret.kind \in Singles
   /\ \E n \in DOMAIN FragsBefore(ret.sel) : FragsBefore(ret.sel)[n].kind = ret.kind)
  => ret.err = "duplicate"

C2_Witness ==
  /\ Chained
  /\ ret.kind = "id"
  /\ \E n \in DOMAIN FragsBefore(ret.sel) : FragsBefore(ret.sel)[n].kind = "id"
  /\ LastBefore(ret.sel) = "class"
  /\ ret.err = "duplicate"

C3_WitnessDuplicate ==
  /\ Chained
  /\ ret.kind = "element"
  /\ LastBefore(ret.sel) = "id"
  /\ CountedBefore(ret.sel, "element")
  /\ ret.err = "duplicate"

RECURSIVE Replay(_, _, _, _)
\* the Selector that the calls hs[n..] of object i leave, started from s at
\* reset count e, when the calls that failed are left out
Replay(i, n, s, e) ==
  IF n > Len(Earlier(i))
  THEN IF nreset[i] > e THEN ResetSel(s) ELSE s
  ELSE LET h == Earlier(i)[n]
           s1 == IF h.epoch > e THEN ResetSel(s) ELSE s
       IN  Replay(i, n + 1,
                  IF h.err = "none" THEN Method(s1, h.kind, h.text).sel ELSE s1,
                  h.epoch)

(* C5: every chained call on a compound is accepted or rejected exactly as  *)
(* it would have been had the calls that failed on it never been made.      *)
C5_FailedAppendNoEffect ==
  Chained =>
    ret.err = Method(Replay(ret.sel, 1, NewSelector, 0), ret.kind, ret.text).err

(* C5, the state it speaks of: a chained call that fails leaves the text,   *)
(* the last kind and the counters of its compound as they were.             *)
C5_FailedAppendKeepsState ==
  [][(ret'.op = "chain" /\ ret'.err # "none") => sels' = sels]_vars

(* C6: stringify leaves the expression it is called on as it was, and two   *)
(* stringify calls in a row on the same expression return the same string.  *)
C6_StringifyPure ==
  [][/\ ret'.op = "selStringify" => sels'[ret'.sel] = sels[ret'.sel]
     /\ (ret'.op = "stringify" /\ ret'.expr.t = "comb")
          => (sels' = sels /\ selectors' = selectors /\ splitters' = splitters)
     /\ (ret.op = "selStringify" /\ ret'.op = "selStringify" /\ ret'.sel = ret.sel)
          => (ret'.val = ret.val /\ ret'.err = ret.err)
     /\ (/\ ret.op = "stringify" /\ ret'.op = "stringify"
         /\ ret.expr.t = "comb" /\ ret'.expr.t = "comb" /\ ret'.expr = ret.expr)
          => (ret'.val = ret.val /\ ret'.err = ret.err)]_vars

RECURSIVE Leaves(_)
\* the compounds of an expression, left to right
Leaves(e) == IF e.t = "sel" THEN <<e.i>> ELSE Leaves(e.l) \o Leaves(e.r)

RECURSIVE NumOps(_)
NumOps(e) == IF e.t = "sel" THEN 0 ELSE NumOps(e.l) + 1 + NumOps(e.r)

RECURSIVE RightNested(_)
\* combine(A1, op1, combine(A2, op2, ... combine(An-1, opn-1, An)))
RightNested(e) ==
  e.t = "comb" /\ e.l.t = "sel" /\ (e.r.t = "sel" \/ RightNested(e.r))

\* text of an operator: as claimed (one space for the descendant operator)
\* and as rendered (space, symbol, space for every operator)
OperatorText(op, how) ==
  IF how = "claimed" /\ op = " " THEN " " ELSE " " \o op \o " "

RECURSIVE Serialize(_, _, _)
\* serialize(left) + operatorText(operator) + serialize(right) over the texts
\* the compounds have in world w
Serialize(e, w, how) ==
  IF e.t = "sel" THEN w.sels[e.i].str
  ELSE Serialize(e.l, w, how) \o OperatorText(e.op, how) \o Serialize(e.r, w, how)

\* the facade stringify call just made was on the combine result ret.expr
OnCombined == ret.op = "stringify" /\ ret.expr.t = "comb"

\* when the call was made the facade held the compounds of ret.expr, in the
\* order of the expression, and as many combinators as the expression has
OnlyPending ==
  /\ ret.pre.selectors = Leaves(ret.expr)
  /\ Len(ret.pre.splitters) = NumOps(ret.expr)

(* C7 as claimed, on right-nested chains alone on the facade: stringify     *)
(* yields serialize(left) + operatorText + serialize(right) with one space  *)
(* for the descendant operator.                                             *)
C7_Original ==
  (OnCombined /\ RightNested(ret.expr) /\ OnlyPending)
  => (ret.err = "none" /\ ret.val = Serialize(ret.expr, ret.pre, "claimed"))

(* C7 as amended: the same with every operator, the descendant one too,     *)
(* rendered as space, symbol, space.                                        *)
C7_CombineSerializes ==
  (OnCombined /\ RightNested(ret.expr) /\ OnlyPending)
  => (ret.err = "none" /\ ret.val = Serialize(ret.expr, ret.pre, "rendered"))

C7_Witness ==
  /\ OnCombined /\ RightNested(ret.expr) /\ OnlyPending
  /\ NumOps(ret.expr) = 2
  /\ ret.val = "a + #a   a"

(* C8: for three compounds alone on the facade, combined right-nested or    *)
(* left-nested, stringify puts each operator between the two operands it    *)
(* was given (whichever of the two operator texts is used).                 *)
C8_TreeShapePreserved ==
  (OnCombined /\ NumOps(ret.expr) = 2 /\ OnlyPending)
  => (\/ ret.val = Serialize(ret.expr, ret.pre, "claimed")
      \/ ret.val = Serialize(ret.expr, ret.pre, "rendered"))

(* C9: combine, stringify of a compound and stringify of a combine result   *)
(* return normally.                                                         *)
C9_NeverFails ==
  (ret.op \in {"combine", "selStringify"} \/ OnCombined) => ret.err = "none"

(* C10: what stringify returns to a caller, on a compound or on a combine   *)
(* result, is what it would return had the caller's calls run alone on a    *)
(* fresh facade.                                                            *)
C10_NoInterference ==
  (ret.op = "selStringify" \/ OnCombined)
  => (ret.err = soloRet.err /\ ret.val = soloRet.val)

(* C11: a successful chained append returns a compound other than every     *)
(* compound that existed before the call and leaves its receiver (text,     *)
(* last-appended kind, occurrence counters) as it was before the call.      *)
C11_AppendLeavesReceiver ==
  [][(ret'.op = "chain" /\ ret'.err = "none")
     => (/\ ret'.out \notin DOMAIN sels
         /\ sels'[ret'.sel] = sels[ret'.sel])]_vars

\* the kinds of fs are in canonically non-decreasing order
NonDecreasing(fs) ==
  \A m, n \in DOMAIN fs : m < n => KindIndex(fs[m].kind) <= KindIndex(fs[n].kind)

\* the number of fragments of kind k in fs
CountOf(fs, k) == Len(SelectSeq(fs, LAMBDA h : h.kind = k))

(* C12: in every reachable state, the fragments rendered in the text of     *)
(* every compound are in canonically non-decreasing kind order.             *)
C12_TextInCanonicalOrder ==
  \A i \in DOMAIN sels :
    sels[i].str = Render(Frags(i)) /\ NonDecreasing(Frags(i))

(* C13: in every reachable state, the occurrence counter of each singleton  *)
(* kind of every compound is at most 1 and equals the number of fragments   *)
(* of that kind present in the compound's text.                             *)
C13_SingletonCounterExact ==
  \A i \in DOMAIN sels : \A k \in Singles :
    /\ sels[i].unicCall[k].t = "number"
    /\ sels[i].unicCall[k].n <= 1
    /\ sels[i].unicCall[k].n = CountOf(Frags(i), k)

(* C14: in every reachable state the number of pending combinators in       *)
(* splitters is at most max(0, number of pending compounds in selectors     *)
(* minus 1), so that the facade's stringify never ends its result with      *)
(* combinator text.                                                         *)
C14_NoDanglingCombinator ==
  Len(splitters) <= (IF Len(selectors) >= 1 THEN Len(selectors) - 1 ELSE 0)

(* C15: a chained append, accepted or rejected, leaves selectors and        *)
(* splitters unchanged; a facade constructor call does not fail, adds one   *)
(* entry at the end of selectors and leaves splitters unchanged; a combine  *)
(* call adds its operator at the front of splitters and leaves selectors    *)
(* unchanged.                                                               *)
C15_ListFrames ==
  [][/\ ret'.op = "chain" => (selectors' = selectors /\ splitters' = splitters)
     /\ ret'.op = "construct"
          => (/\ ret'.err = "none"
              /\ Len(selectors') = Len(selectors) + 1
              /\ SubSeq(selectors', 1, Len(selectors)) = selectors
              /\ splitters' = splitters)
     /\ ret'.op = "combine"
          => (/\ splitters' = <<ret'.text>> \o splitters
              /\ selectors' = selectors)]_vars

\* a second combine with another operator, made with three compounds pending
\* of which one has rejected an append
C15_Witness ==
  /\ ret.op = "combine"
  /\ splitters = <<"+", " ">>
  /\ Len(selectors) = 3
  /\ \E i \in DOMAIN hist : \E n \in DOMAIN hist[i] : hist[i][n].err # "none"

(* C16: stringify() on a compound sets its text to empty and its            *)
(* last-appended kind to none, empties selectors, and leaves its occurrence *)
(* counters and splitters unchanged; so a singleton kind the compound       *)
(* accepted before a stringify is rejected as a duplicate when appended to  *)
(* the same compound afterwards.                                            *)
C16_CompoundStringifyResets ==
  [][/\ ret'.op = "selStringify"
          => (/\ sels'[ret'.sel].str = ""
              /\ sels'[ret'.sel].last = "null"
              /\ selectors' = <<>>
              /\ sels'[ret'.sel].unicCall = sels[ret'.sel].unicCall
              /\ splitters' = splitters)
     /\ (/\ ret'.op = "chain"
         /\ ret'.kind \in Singles
         /\ \E n \in DOMAIN hist[ret'.sel] :
              /\ hist[ret'.sel][n].kind = ret'.kind
              /\ hist[ret'.sel][n].err = "none"
              /\ hist[ret'.sel][n].epoch < nreset[ret'.sel])
          => ret'.err = "duplicate"]_vars

\* a compound stringified while a combinator was pending, then given again
\* the singleton kind it held, as its first append since the stringify
C16_Witness ==
  /\ Chained
  /\ ret.err = "duplicate"
  /\ nreset[ret.sel] >= 1
  /\ LastBefore(ret.sel) = "null"
  /\ sels[ret.sel].str = ""
  /\ selectors = <<>>
  /\ splitters # <<>>

====
